---- MODULE Spec2Model ----
(***************************************************************************)
(* Model of pylabrobot/plate_reading/plate_reader.py: the PlateReader      *)
(* front end.  The state is the reader's list of children (the carrier     *)
(* slot), the machine's setup flag, the installed backend's declared       *)
(* signatures, and a record of the last front-end call and its outcome.    *)
(*                                                                         *)
(* Error kinds.  The source raises Python exceptions; the model names      *)
(* each raise site by the kind the design document gives it:               *)
(*   line 59   ValueError("There already is a plate ...")  CapacityError   *)
(*   line 61   ValueError("The resource must be a Plate.")                 *)
(*                                          InvalidCarrierTypeError        *)
(*   line 67   NoPlateError                        NoCarrierError          *)
(*   line 117  TypeError("Missing required ...")   MissingArgumentError    *)
(*   line 124  TypeError("Got unexpected ...")     UnrecognizedArgumentError*)
(*   decorator need_setup_finished                 LifecycleNotReadyError  *)
(*   Python's own TypeError for a keyword given twice in a call            *)
(*                                                 MultipleValuesError     *)
(*   Python's own TypeError for a call the callee's signature cannot bind  *)
(*                                                 BindError               *)
(***************************************************************************)
EXTENDS Integers, Sequences, FiniteSets, TLC

VARIABLES children, setup_finished, backend, last

vars == <<children, setup_finished, backend, last>>

(* ------------------------------ bounds --------------------------------- *)

\* Number of distinct Plate objects a caller may try to assign.
NumPlates == 2

\* Number of distinct resources that are not Plates.
NumOthers == 1

\* Wavelengths range over 1..MaxValue.
MaxValue == 2

Plates == 1..NumPlates

Others == (NumPlates + 1)..(NumPlates + NumOthers)

Resources == Plates \cup Others

\* Argument values are opaque to the front end.  Each role draws from its
\* own values, so that a value passed in the wrong role is visible.
Wavelengths == 1..MaxValue

FocalHeights == {MaxValue + 1}

KwargValues == {MaxValue + 2}

Grids == {MaxValue + 3}

(* -------------------------- backend signatures ------------------------- *)

\* The parameters the front end always supplies itself, per read operation.
LuminescenceDefault == {"focal_height", "plate"}

AbsorbanceDefault == {"wavelength", "plate"}

FluorescenceDefault ==
  {"excitation_wavelength", "emission_wavelength", "focal_height", "plate"}

\* Names of backend-specific optional knobs a backend may declare.
KnobNames == {"gain", "settle_time"}

\* Keyword names a caller may pass as **backend_kwargs.  "plate" is not a
\* parameter of the front-end read methods, so plate=... passed by a caller
\* lands in backend_kwargs like any other keyword.
KwargNames == KnobNames \cup {"plate"}

\* What a backend declares about a knob.
Declarations == {"absent", "required", "optional"}

\* A backend: for each knob how its read methods declare it, whether they
\* declare *args and whether they declare **kwargs.
Backends ==
  [knobs : [KnobNames -> Declarations],
   var_positional : BOOLEAN,
   var_keyword : BOOLEAN]

\* inspect.Parameter as the source reads it: name, kind, default.
Param(n, k, d) == [name |-> n, kind |-> k, default |-> d]

\* inspect.signature(self.backend.read_xxx): the bound method's parameters
\* (self is already bound).  The fixed parameters of the operation are
\* declared without default, as the backend interface prescribes.
Signature(b, fixed) ==
  {Param(n, "POSITIONAL_OR_KEYWORD", "empty") : n \in fixed}
  \cup {Param(n, "POSITIONAL_OR_KEYWORD", "empty") :
          n \in {k \in KnobNames : b.knobs[k] = "required"}}
  \cup {Param(n, "POSITIONAL_OR_KEYWORD", "value") :
          n \in {k \in KnobNames : b.knobs[k] = "optional"}}
  \cup (IF b.var_positional
          THEN {Param("args", "VAR_POSITIONAL", "empty")} ELSE {})
  \cup (IF b.var_keyword
          THEN {Param("kwargs", "VAR_KEYWORD", "empty")} ELSE {})

(* ------------------------------ dicts ---------------------------------- *)

EmptyDict == [n \in {} |-> 0]

\* All keyword dicts a caller can pass as **backend_kwargs.
KwargDicts == UNION {[S -> KwargValues] : S \in SUBSET KwargNames}

\* dict.pop of every key in drop.
PopAll(d, drop) == [n \in (DOMAIN d) \ drop |-> d[n]]

(* --------------------------- call records ------------------------------ *)

\* The record of one front-end call: the operation, what the caller gave,
\* the steps of the handler that ran, the error raised (or "none"), the
\* names the error reports, whether and with what the backend was invoked,
\* and what the call returned.
Call(op, resource, fixed, kwargs) ==
  [op |-> op, resource |-> resource, fixed |-> fixed, kwargs |-> kwargs,
   steps |-> <<>>, raised |-> "none", names |-> {},
   invoked |-> 0, forwarded |-> EmptyDict, dropped |-> {},
   backend_result |-> [failed |-> FALSE, grid |-> 0], returned |-> 0]

NoCall == Call("none", 0, EmptyDict, EmptyDict)

Raise(c, steps, kind, names) ==
  [c EXCEPT !.steps = steps, !.raised = kind, !.names = names]

(* ----------------------------- slot manager ---------------------------- *)

\* isinstance(resource, Plate)
IsPlate(resource) == resource \in Plates

\* ResourceHolder.assign_child_resource / Resource.assign_child_resource:
\* the generic container stores the child.
super_assign_child_resource(ch, resource) == Append(ch, resource)

\* Faulty variants of the checks: the capacity check left out, the capacity
\* check off by one, the type check left out.
assign_check_no_capacity(ch, resource) ==
  IF ~IsPlate(resource) THEN "InvalidCarrierTypeError" ELSE "none"

assign_check_off_by_one(ch, resource) ==
  IF Len(ch) > 1 THEN "CapacityError"
  ELSE IF ~IsPlate(resource) THEN "InvalidCarrierTypeError"
  ELSE "none"

assign_check_no_type(ch, resource) ==
  IF Len(ch) >= 1 THEN "CapacityError" ELSE "none"

\* The two checks of PlateReader.assign_child_resource, in source order.
assign_check(ch, resource) ==
  IF Len(ch) >= 1 THEN "CapacityError"
  ELSE IF ~IsPlate(resource) THEN "InvalidCarrierTypeError"
  ELSE "none"

assign_child_resource ==
  \E resource \in Resources :
    LET c == Call("assign_child_resource", resource, EmptyDict, EmptyDict)
        err == assign_check(children, resource)
    IN  /\ children' = IF err = "none"
                         THEN super_assign_child_resource(children, resource)
                         ELSE children
        /\ last' = IF err = "none" THEN c ELSE Raise(c, <<>>, err, {})
        /\ UNCHANGED <<setup_finished, backend>>

\* Resource.unassign_child_resource: the explicit removal of the carrier.
unassign_child_resource ==
  /\ Len(children) >= 1
  /\ children' = Tail(children)
  /\ last' = Call("unassign_child_resource", Head(children), EmptyDict, EmptyDict)
  /\ UNCHANGED <<setup_finished, backend>>

\* Faulty variant: an empty slot is not reported.
get_plate_of_unchecked(ch) ==
  IF Len(ch) = 0 THEN [raised |-> "none", value |-> 0]
  ELSE [raised |-> "none", value |-> ch[1]]

\* PlateReader.get_plate as a function of the children list.
get_plate_of(ch) ==
  IF Len(ch) = 0 THEN [raised |-> "NoCarrierError", value |-> 0]
  ELSE [raised |-> "none", value |-> ch[1]]

get_plate ==
  LET c == Call("get_plate", 0, EmptyDict, EmptyDict)
      p == get_plate_of(children)
  IN  /\ last' = IF p.raised = "none"
                   THEN [c EXCEPT !.steps = <<"get_plate">>, !.returned = p.value]
                   ELSE Raise(c, <<"get_plate">>, p.raised, {})
      /\ UNCHANGED <<children, setup_finished, backend>>

(* ------------------------------ lifecycle ------------------------------ *)

\* Machine.setup / Machine.stop
setup ==
  /\ setup_finished' = TRUE
  /\ last' = Call("setup", 0, EmptyDict, EmptyDict)
  /\ UNCHANGED <<children, backend>>

stop ==
  /\ setup_finished' = FALSE
  /\ last' = Call("stop", 0, EmptyDict, EmptyDict)
  /\ UNCHANGED <<children, backend>>

\* The need_setup_finished decorator: the wrapped body runs only when
\* setup has finished.
need_setup_finished(finished, c, body) ==
  IF ~finished THEN Raise(c, <<>>, "LifecycleNotReadyError", {}) ELSE body

(* --------------------------- open and close ---------------------------- *)

open ==
  /\ last' = [Call("open", 0, EmptyDict, EmptyDict) EXCEPT
                !.steps = <<"backend">>, !.invoked = 1]
  /\ UNCHANGED <<children, setup_finished, backend>>

close ==
  /\ last' = [Call("close", 0, EmptyDict, EmptyDict) EXCEPT
                !.steps = <<"backend">>, !.invoked = 1]
  /\ UNCHANGED <<children, setup_finished, backend>>

(* ------------------------- argument reconciler ------------------------- *)

\* Faulty variants of _check_args, selected by m:
\*   "keyword_first"     the **kwargs early return precedes the missing check
\*   "always_strict"     the **kwargs early return is left out
\*   "permissive"        unrecognized names are returned, not raised
\*   "markers_required"  *args and **kwargs count as required parameters
check_args_variant(sig, backend_kwargs, default, m) ==
  LET default_args == default \cup {"self"}
      args_all == {p \in sig : p.name \notin default_args}
      vars_keyword == {p.name : p \in {q \in sig : q.kind = "VAR_KEYWORD"}}
      args == {p \in args_all :
                 p.kind \notin {"VAR_POSITIONAL", "VAR_KEYWORD"}}
      non_default ==
        {p.name : p \in {q \in (IF m = "markers_required" THEN args_all ELSE args) :
                           q.default = "empty"}}
      backend_kws == DOMAIN backend_kwargs
      missing == non_default \ backend_kws
      extra == backend_kws \ {p.name : p \in args}
      accept == [raised |-> "none", names |-> {}, returned |-> {}]
  IN  IF m = "keyword_first" /\ Cardinality(vars_keyword) > 0 THEN accept
      ELSE IF Cardinality(missing) > 0
        THEN [raised |-> "MissingArgumentError", names |-> missing,
              returned |-> {}]
      ELSE IF m # "always_strict" /\ Cardinality(vars_keyword) > 0 THEN accept
      ELSE IF m # "permissive" /\ Cardinality(extra) > 0
        THEN [raised |-> "UnrecognizedArgumentError", names |-> extra,
              returned |-> {}]
      ELSE [raised |-> "none", names |-> {}, returned |-> extra]

_check_args_keyword_first(sig, backend_kwargs, default) ==
  check_args_variant(sig, backend_kwargs, default, "keyword_first")

_check_args_always_strict(sig, backend_kwargs, default) ==
  check_args_variant(sig, backend_kwargs, default, "always_strict")

_check_args_permissive(sig, backend_kwargs, default) ==
  check_args_variant(sig, backend_kwargs, default, "permissive")

_check_args_markers_required(sig, backend_kwargs, default) ==
  check_args_variant(sig, backend_kwargs, default, "markers_required")

\* PlateReader._check_args(method, backend_kwargs, default), with sig the
\* result of inspect.signature(method).  The result records the exception
\* raised (or "none"), the names it reports, and the returned set.
_check_args(sig, backend_kwargs, default) ==
  LET default_args == default \cup {"self"}
      args_all == {p \in sig : p.name \notin default_args}
      vars_keyword == {p.name : p \in {q \in sig : q.kind = "VAR_KEYWORD"}}
      args == {p \in args_all :
                 p.kind \notin {"VAR_POSITIONAL", "VAR_KEYWORD"}}
      non_default == {p.name : p \in {q \in args : q.default = "empty"}}
      backend_kws == DOMAIN backend_kwargs
      missing == non_default \ backend_kws
      extra == backend_kws \ {p.name : p \in args}
  IN  IF Cardinality(missing) > 0
        THEN [raised |-> "MissingArgumentError", names |-> missing,
              returned |-> {}]
      ELSE IF Cardinality(vars_keyword) > 0
        THEN [raised |-> "none", names |-> {}, returned |-> {}]
      ELSE IF Cardinality(extra) > 0 /\ Cardinality(vars_keyword) = 0
        THEN [raised |-> "UnrecognizedArgumentError", names |-> extra,
              returned |-> {}]
      ELSE [raised |-> "none", names |-> {}, returned |-> extra]

(* ------------------------------ the backend ---------------------------- *)

\* What the backend's read does once invoked: it fails, or it returns a
\* grid of readings (identified here by its reading).
BackendOutcomes ==
  {[failed |-> TRUE, grid |-> 0]}
  \cup {[failed |-> FALSE, grid |-> g] : g \in Grids}

\* Faulty variant: the call expression leaves **backend_kwargs out.
backend_call_without_kwargs(c, sig, keywords, kwargs, outcome) ==
  [c EXCEPT !.steps = c.steps \o <<"call", "backend">>,
            !.invoked = 1,
            !.forwarded = keywords,
            !.backend_result = outcome,
            !.raised = IF outcome.failed THEN "BackendError" ELSE "none",
            !.returned = outcome.grid]

\* The call expression  await self.backend.read_xxx(k1=v1, ..., **kwargs):
\* Python rejects a keyword given both explicitly and in **kwargs, then
\* binds the keywords to the callee's signature, then runs the callee and
\* hands its result (or its exception) to the caller.
backend_call(c, sig, keywords, kwargs, outcome) ==
  LET twice == (DOMAIN keywords) \cap (DOMAIN kwargs)
      given == (DOMAIN keywords) \cup (DOMAIN kwargs)
      named == {p \in sig : p.kind \notin {"VAR_POSITIONAL", "VAR_KEYWORD"}}
      accepts_any == \E p \in sig : p.kind = "VAR_KEYWORD"
      unbound == IF accepts_any THEN {} ELSE given \ {p.name : p \in named}
      unfilled == {p.name : p \in {q \in named : q.default = "empty"}} \ given
      steps == Append(c.steps, "call")
  IN  IF twice # {} THEN Raise(c, steps, "MultipleValuesError", twice)
      ELSE IF unbound \cup unfilled # {}
        THEN Raise(c, steps, "BindError", unbound \cup unfilled)
      ELSE [c EXCEPT !.steps = Append(steps, "backend"),
                     !.invoked = 1,
                     !.forwarded = keywords @@ kwargs,
                     !.backend_result = outcome,
                     !.raised = IF outcome.failed THEN "BackendError" ELSE "none",
                     !.returned = outcome.grid]

(* --------------------------- read operations --------------------------- *)

\* The body of PlateReader.read_luminescence, as the record of the call.
read_luminescence_body(ch, b, focal_height, backend_kwargs, outcome) ==
  LET c == Call("read_luminescence", 0,
                [focal_height |-> focal_height], backend_kwargs)
      sig == Signature(b, LuminescenceDefault)
      plate == get_plate_of(ch)
      extra_args == _check_args(sig, backend_kwargs, LuminescenceDefault)
  IN  IF plate.raised # "none"
          THEN Raise(c, <<"get_plate">>, plate.raised, {})
        ELSE IF extra_args.raised # "none"
          THEN Raise(c, <<"get_plate", "_check_args">>,
                     extra_args.raised, extra_args.names)
        ELSE backend_call(
               [c EXCEPT !.steps = <<"get_plate", "_check_args">>,
                         !.dropped = extra_args.returned],
               sig,
               [focal_height |-> focal_height, plate |-> plate.value],
               PopAll(backend_kwargs, extra_args.returned),
               outcome)

\* PlateReader.read_luminescence under its @need_setup_finished decorator.
read_luminescence_call(finished, ch, b, focal_height, backend_kwargs, outcome) ==
  need_setup_finished(
    finished,
    Call("read_luminescence", 0, [focal_height |-> focal_height], backend_kwargs),
    read_luminescence_body(ch, b, focal_height, backend_kwargs, outcome))

read_luminescence ==
  \E focal_height \in FocalHeights, backend_kwargs \in KwargDicts,
     outcome \in BackendOutcomes :
    /\ last' = read_luminescence_call(setup_finished, children, backend,
                                      focal_height, backend_kwargs, outcome)
    /\ UNCHANGED <<children, setup_finished, backend>>

\* The body of PlateReader.read_absorbance, as the record of the call.
read_absorbance_body(ch, b, wavelength, backend_kwargs, outcome) ==
  LET c == Call("read_absorbance", 0,
                [wavelength |-> wavelength], backend_kwargs)
      sig == Signature(b, AbsorbanceDefault)
      plate == get_plate_of(ch)
      extra_args == _check_args(sig, backend_kwargs, AbsorbanceDefault)
  IN  IF plate.raised # "none"
          THEN Raise(c, <<"get_plate">>, plate.raised, {})
        ELSE IF extra_args.raised # "none"
          THEN Raise(c, <<"get_plate", "_check_args">>,
                     extra_args.raised, extra_args.names)
        ELSE backend_call(
               [c EXCEPT !.steps = <<"get_plate", "_check_args">>,
                         !.dropped = extra_args.returned],
               sig,
               [wavelength |-> wavelength, plate |-> plate.value],
               PopAll(backend_kwargs, extra_args.returned),
               outcome)

\* Faulty variant: read_absorbance without its decorator.
read_absorbance_undecorated(finished, ch, b, wavelength, backend_kwargs, outcome) ==
  read_absorbance_body(ch, b, wavelength, backend_kwargs, outcome)

\* PlateReader.read_absorbance under its @need_setup_finished decorator.
read_absorbance_call(finished, ch, b, wavelength, backend_kwargs, outcome) ==
  need_setup_finished(
    finished,
    Call("read_absorbance", 0, [wavelength |-> wavelength], backend_kwargs),
    read_absorbance_body(ch, b, wavelength, backend_kwargs, outcome))

read_absorbance ==
  \E wavelength \in Wavelengths, backend_kwargs \in KwargDicts,
     outcome \in BackendOutcomes :
    /\ last' = read_absorbance_call(setup_finished, children, backend,
                                    wavelength, backend_kwargs, outcome)
    /\ UNCHANGED <<children, setup_finished, backend>>

\* The body of PlateReader.read_fluorescence, as the record of the call.
read_fluorescence_body(ch, b, excitation_wavelength, emission_wavelength, focal_height, backend_kwargs, outcome) ==
  LET c == Call("read_fluorescence", 0,
                [excitation_wavelength |-> excitation_wavelength,
                 emission_wavelength |-> emission_wavelength,
                 focal_height |-> focal_height], backend_kwargs)
      sig == Signature(b, FluorescenceDefault)
      plate == get_plate_of(ch)
      extra_args == _check_args(sig, backend_kwargs, FluorescenceDefault)
  IN  IF plate.raised # "none"
          THEN Raise(c, <<"get_plate">>, plate.raised, {})
        ELSE IF extra_args.raised # "none"
          THEN Raise(c, <<"get_plate", "_check_args">>,
                     extra_args.raised, extra_args.names)
        ELSE backend_call(
               [c EXCEPT !.steps = <<"get_plate", "_check_args">>,
                         !.dropped = extra_args.returned],
               sig,
               [excitation_wavelength |-> excitation_wavelength,
                emission_wavelength |-> emission_wavelength,
                focal_height |-> focal_height, plate |-> plate.value],
               PopAll(backend_kwargs, extra_args.returned),
               outcome)

\* PlateReader.read_fluorescence under its @need_setup_finished decorator.
read_fluorescence_call(finished, ch, b, excitation_wavelength, emission_wavelength, focal_height, backend_kwargs, outcome) ==
  need_setup_finished(
    finished,
    Call("read_fluorescence", 0,
         [excitation_wavelength |-> excitation_wavelength,
          emission_wavelength |-> emission_wavelength,
          focal_height |-> focal_height], backend_kwargs),
    read_fluorescence_body(ch, b, excitation_wavelength, emission_wavelength,
                           focal_height, backend_kwargs, outcome))

read_fluorescence ==
  \E excitation_wavelength \in Wavelengths,
     emission_wavelength \in Wavelengths,
     focal_height \in FocalHeights, backend_kwargs \in KwargDicts,
     outcome \in BackendOutcomes :
    /\ last' = read_fluorescence_call(setup_finished, children, backend,
                                      excitation_wavelength,
                                      emission_wavelength, focal_height,
                                      backend_kwargs, outcome)
    /\ UNCHANGED <<children, setup_finished, backend>>

(* ---------------------------- specification --------------------------- *)

Init ==
  /\ children = <<>>
  /\ setup_finished = FALSE
  /\ backend \in Backends
  /\ last = NoCall

Next ==
  \/ assign_child_resource
  \/ unassign_child_resource
  \/ get_plate
  \/ setup
  \/ stop
  \/ open
  \/ close
  \/ read_luminescence
  \/ read_absorbance
  \/ read_fluorescence

Spec == Init /\ [][Next]_vars

(* ------------------------------- claims -------------------------------- *)

ReadOps == {"read_luminescence", "read_absorbance", "read_fluorescence"}

\* The always-supplied parameter names of the read operation op.
DefaultOf(op) ==
  IF op = "read_luminescence" THEN LuminescenceDefault
  ELSE IF op = "read_absorbance" THEN AbsorbanceDefault
  ELSE FluorescenceDefault

\* What the installed backend declares beyond the always-supplied names.
DeclaredParams == {k \in KnobNames : backend.knobs[k] # "absent"}

RequiredParams == {k \in KnobNames : backend.knobs[k] = "required"}

\* The last call, seen as a read call.
LastIsRead == last.op \in ReadOps

Missing == RequiredParams \ DOMAIN last.kwargs

Unrecognized == (DOMAIN last.kwargs) \ DeclaredParams

\* The last call was a read issued with setup complete and a carrier in the
\* slot.  (Every operation rewrites last, and no read changes the slot or
\* the setup flag, so these are the values the read saw.)
ReadyRead == LastIsRead /\ setup_finished /\ Len(children) = 1

\* Every caller extra reached the backend with its value.
ExtrasForwarded ==
  /\ DOMAIN last.kwargs \subseteq DOMAIN last.forwarded
  /\ \A n \in DOMAIN last.kwargs : last.forwarded[n] = last.kwargs[n]

\* C1: the slot is empty at construction and never holds more than one
\* carrier, whatever operations have run.
C1_SlotZeroOrOne ==
  /\ Len(children) \in {0, 1}
  /\ (last = NoCall => children = <<>>)

\* A second assignment was attempted, and refused, on an occupied slot.
C1_Witness ==
  /\ last.op = "assign_child_resource"
  /\ last.raised = "CapacityError"
  /\ Len(children) = 1

\* C2: assigning a Plate while the slot is occupied fails with
\* CapacityError and leaves exactly the original carrier in the slot.
C2_SecondCarrierRefused ==
  [][(/\ last'.op = "assign_child_resource"
      /\ IsPlate(last'.resource)
      /\ Len(children) >= 1)
     => (/\ last'.raised = "CapacityError"
         /\ children' = children
         /\ Len(children') = 1)]_vars

\* A different Plate was offered to an occupied slot and refused.
C2_Witness ==
  /\ last.op = "assign_child_resource"
  /\ IsPlate(last.resource)
  /\ last.raised = "CapacityError"
  /\ Len(children) = 1
  /\ children[1] # last.resource

\* C3 as stated: assigning a non-Plate always fails with
\* InvalidCarrierTypeError, slot empty or occupied, and leaves the slot as
\* it was.
C3_Original ==
  [][(/\ last'.op = "assign_child_resource"
      /\ ~IsPlate(last'.resource))
     => (/\ last'.raised = "InvalidCarrierTypeError"
         /\ children' = children)]_vars

\* C3 amended: assigning a non-Plate always fails and leaves the slot as it
\* was; the error is InvalidCarrierTypeError when the slot is empty and
\* CapacityError when it is occupied (the capacity check comes first).
C3_NonCarrierRefused ==
  [][(/\ last'.op = "assign_child_resource"
      /\ ~IsPlate(last'.resource))
     => (/\ children' = children
         /\ last'.raised = IF Len(children) = 0
                             THEN "InvalidCarrierTypeError"
                             ELSE "CapacityError")]_vars

\* A non-Plate was offered to an empty slot and refused for its type.
C3_Witness ==
  /\ last.op = "assign_child_resource"
  /\ ~IsPlate(last.resource)
  /\ last.raised = "InvalidCarrierTypeError"
  /\ children = <<>>

\* C4: a read before setup has completed fails with
\* LifecycleNotReadyError before the slot is queried and before the
\* arguments are reconciled, and the backend is not invoked.
C4_ReadBeforeSetup ==
  (LastIsRead /\ ~setup_finished)
    => (/\ last.raised = "LifecycleNotReadyError"
        /\ last.steps = <<>>
        /\ last.invoked = 0)

\* A read that would otherwise have gone through was refused before setup.
C4_Witness ==
  /\ LastIsRead
  /\ ~setup_finished
  /\ Len(children) = 1
  /\ Missing = {}
  /\ Unrecognized = {}
  /\ last.raised = "LifecycleNotReadyError"

\* C5: with setup complete, a read on an empty slot fails with
\* NoCarrierError whatever the extras; the arguments are not reconciled,
\* the backend is not invoked and the slot stays empty.
C5_ReadOnEmptySlot ==
  [][(/\ last'.op \in ReadOps
      /\ setup_finished
      /\ Len(children) = 0)
     => (/\ last'.raised = "NoCarrierError"
         /\ last'.steps = <<"get_plate">>
         /\ last'.invoked = 0
         /\ children' = <<>>)]_vars

\* A read with a missing and an unrecognized extra met an empty slot.
C5_Witness ==
  /\ LastIsRead
  /\ setup_finished
  /\ children = <<>>
  /\ Missing # {}
  /\ Unrecognized # {}
  /\ ~backend.var_keyword
  /\ last.raised = "NoCarrierError"

\* C6: with setup complete and a carrier assigned, a read whose extras lack
\* a required backend parameter fails with MissingArgumentError naming
\* exactly the missing parameters, and the backend is not invoked; also
\* when the backend accepts **kwargs and when unrecognized extras are given.
C6_MissingArgument ==
  (ReadyRead /\ Missing # {})
    => (/\ last.raised = "MissingArgumentError"
        /\ last.names = Missing
        /\ last.invoked = 0)

\* A backend with **kwargs and a required parameter the caller left out,
\* while passing another name the backend does not declare.
C6_Witness ==
  /\ ReadyRead
  /\ backend.var_keyword
  /\ Missing # {}
  /\ Unrecognized # {}
  /\ last.raised = "MissingArgumentError"

\* C7 as stated: when the backend accepts **kwargs (setup complete, carrier
\* assigned, nothing missing), any combination of extras is forwarded
\* unfiltered and never raises UnrecognizedArgumentError.
C7_Original ==
  (ReadyRead /\ backend.var_keyword /\ Missing = {})
    => (/\ last.raised # "UnrecognizedArgumentError"
        /\ last.invoked = 1
        /\ ExtrasForwarded)

\* C7 amended: under the same conditions the call never raises
\* UnrecognizedArgumentError; every extra is forwarded unfiltered provided
\* no extra bears the name of an always-supplied parameter; an extra that
\* does makes the backend call fail for a keyword given twice, before the
\* backend runs.
C7_UnboundedExtras ==
  (ReadyRead /\ backend.var_keyword /\ Missing = {})
    => (/\ last.raised # "UnrecognizedArgumentError"
        /\ IF (DOMAIN last.kwargs) \cap DefaultOf(last.op) = {}
             THEN last.invoked = 1 /\ ExtrasForwarded
             ELSE /\ last.raised = "MultipleValuesError"
                  /\ last.names = (DOMAIN last.kwargs) \cap DefaultOf(last.op)
                  /\ last.invoked = 0)

\* An extra the backend does not declare by name reached a **kwargs backend.
C7_Witness ==
  /\ ReadyRead
  /\ backend.var_keyword
  /\ Missing = {}
  /\ Unrecognized # {}
  /\ last.invoked = 1
  /\ ExtrasForwarded

\* C8: when the backend does not accept **kwargs (setup complete, carrier
\* assigned, nothing missing), a read with an extra outside the declared
\* parameters fails with UnrecognizedArgumentError naming exactly those
\* extras; the backend is not invoked and nothing is dropped.
C8_UnrecognizedArgument ==
  (ReadyRead /\ ~backend.var_keyword /\ Missing = {} /\ Unrecognized # {})
    => (/\ last.raised = "UnrecognizedArgumentError"
        /\ last.names = Unrecognized
        /\ last.invoked = 0
        /\ last.dropped = {})

\* A declared extra and an undeclared one were given together.
C8_Witness ==
  /\ ReadyRead
  /\ ~backend.var_keyword
  /\ Missing = {}
  /\ Unrecognized # {}
  /\ (DOMAIN last.kwargs) \cap DeclaredParams # {}
  /\ last.raised = "UnrecognizedArgumentError"

\* C9 as stated: a read with no extras goes through to the backend iff the
\* backend declares no required parameter beyond the always-supplied ones.
C9_Original ==
  (LastIsRead /\ last.kwargs = EmptyDict)
    => (last.invoked = 1 <=> RequiredParams = {})

\* C9 amended: the same, for a read issued with setup complete and a
\* carrier assigned.
C9_NoExtras ==
  (ReadyRead /\ last.kwargs = EmptyDict)
    => (last.invoked = 1 <=> RequiredParams = {})

\* A read with no extras went through to a backend that declares optional
\* parameters, *args, and nothing else required.
C9_Witness ==
  /\ ReadyRead
  /\ last.kwargs = EmptyDict
  /\ RequiredParams = {}
  /\ DeclaredParams # {}
  /\ backend.var_positional
  /\ last.invoked = 1

\* C10: whenever a read reaches the backend, nothing was dropped, the
\* backend was invoked once with the caller's fixed parameters, the carrier
\* in the slot and exactly the caller's extras, and the call hands back the
\* backend's outcome unchanged.
C10_ForwardedVerbatim ==
  (LastIsRead /\ last.invoked >= 1)
    => (/\ last.dropped = {}
        /\ last.invoked = 1
        /\ Len(children) = 1
        /\ DOMAIN last.forwarded =
             DOMAIN last.fixed \cup {"plate"} \cup DOMAIN last.kwargs
        /\ \A n \in DOMAIN last.fixed : last.forwarded[n] = last.fixed[n]
        /\ last.forwarded["plate"] = children[1]
        /\ ExtrasForwarded
        /\ last.returned = last.backend_result.grid
        /\ (last.raised = "none" <=> ~last.backend_result.failed))

\* A fluorescence read with an extra reached the backend and returned a grid.
C10_Witness ==
  /\ last.op = "read_fluorescence"
  /\ last.invoked = 1
  /\ last.kwargs # EmptyDict
  /\ last.raised = "none"
  /\ last.returned \in Grids

====
